---- MODULE Spec2Model ----
(***************************************************************************)
(* Omnipedia backend: the user controller's follow / unfollow handlers and *)
(* the topic controller's getTopicBySlug, as state machines over the       *)
(* document store.  Every await of a handler is one atomic store operation *)
(* followed by the handler's synchronous code up to its next await.  The   *)
(* frontend's SearchBar is a state machine over its component state, its   *)
(* debounce timer and its suggestion requests in flight.                   *)
(***************************************************************************)
EXTENDS Integers, Sequences, FiniteSets, TLC

VARIABLES users, reqs, votes, fetches, bar

vars == <<users, reqs, votes, fetches, bar>>

\* ------------------------------------------------------------------ bounds
\* Number of user-controller requests a behaviour issues.
MaxReq == 2
\* Number of getTopicBySlug requests a behaviour issues.
MaxFetch == 2
\* Number of resources of the stored topic (ids 1..NResources).
NResources == 2

\* The well-formed user ids; the registered users are the domain of users.
UserIds == {1, 2, 3}
\* The request body carries no id (undefined / empty string).
NoId == 0
ReqIds == 1..MaxReq
FetchIds == 1..MaxFetch
\* The resources of the stored topic, as populate('resources') returns them.
Resources == 1..NResources

\* ------------------------------------------------------- array helpers
\* Array.prototype.includes on a Mongoose array of ObjectIds.
Includes(list, id) == \E i \in 1..Len(list) : list[i] = id

\* Array.prototype.push.
Push(list, id) == Append(list, id)

\* list.filter((x) => x.toString() !== id).
Filter(list, id) == SelectSeq(list, LAMBDA x : x # id)

\* ------------------------------------------------------------ documents
NoDoc == [followedUsers |-> <<>>, followers |-> <<>>, bookmarkedResources |-> <<>>,
          v |-> 0, present |-> FALSE]

NewUser == [followedUsers |-> <<>>, followers |-> <<>>, bookmarkedResources |-> <<>>,
            v |-> 0, present |-> TRUE]

\* The lists of every stored user, without the version key.
Lists(store) ==
    [u \in DOMAIN store |->
        [followedUsers |-> store[u].followedUsers,
         followers |-> store[u].followers,
         bookmarkedResources |-> store[u].bookmarkedResources]]

\* User.findById: the stored document, or null.
FindById(id) == IF id \in DOMAIN users THEN users[id] ELSE NoDoc

IdleReq ==
    [op |-> "none", actor |-> NoId, target |-> NoId, pc |-> "idle",
     user |-> NoDoc, doc |-> NoDoc, status |-> 0,
     alone |-> FALSE, wrote1 |-> FALSE, wrote2 |-> FALSE, failedAt |-> "none",
     pre |-> <<>>, post |-> <<>>]

Active(r) == reqs[r].pc \notin {"idle", "done"}

\* The response is sent: the request is over.
Finish(q, code, store) ==
    [q EXCEPT !.pc = "done", !.status = code, !.user = NoDoc, !.doc = NoDoc,
              !.post = Lists(store)]

\* ------------------------------------------------- follow / unfollow
\* !userIdToFollow, !userIdToUnfollow: the body carries no id.
IsMissing(target) == target = NoId

\* Mutant of IsSelf: the self-reference check is dropped.
IsSelf_Dropped(actor, target) == FALSE

\* userIdToFollow === currentUserId?.toString().
IsSelf(actor, target) == target = actor

\* Mutant of IsNull: the null check after findById is dropped.
IsNull_Dropped(doc) == FALSE

\* !userToFollow, !userToUnfollow: findById resolved to null.
IsNull(doc) == ~doc.present

\* Mutant of NeedsSide1: follow pushes without the includes check.
NeedsSide1_NoCheck(q) ==
    IF q.op = "follow" THEN TRUE ELSE Includes(q.user.followedUsers, q.target)

\* The guards of the two sides, on the handler's in-memory documents.
NeedsSide1(q) ==
    IF q.op = "follow"
    THEN ~Includes(q.user.followedUsers, q.target)
    ELSE Includes(q.user.followedUsers, q.target)

\* Mutant of NeedsSide2: the guard reads the target's followedUsers.
NeedsSide2_WrongList(q) ==
    IF q.op = "follow"
    THEN ~Includes(q.doc.followedUsers, q.actor)
    ELSE Includes(q.doc.followedUsers, q.actor)

NeedsSide2(q) ==
    IF q.op = "follow"
    THEN ~Includes(q.doc.followers, q.actor)
    ELSE Includes(q.doc.followers, q.actor)

\* The in-memory edit of each side: push for follow, filter for unfollow.
EditSide1(q) ==
    IF q.op = "follow"
    THEN Push(q.user.followedUsers, q.target)
    ELSE Filter(q.user.followedUsers, q.target)

\* Mutant of EditSide2: unfollow filters the target's id out of its own followers.
EditSide2_WrongId(q) ==
    IF q.op = "follow"
    THEN Push(q.doc.followers, q.actor)
    ELSE Filter(q.doc.followers, q.target)

EditSide2(q) ==
    IF q.op = "follow"
    THEN Push(q.doc.followers, q.actor)
    ELSE Filter(q.doc.followers, q.actor)

\* Mutant of Side2Step: an unfollow that found nothing to remove is answered 400.
Side2Step_NotFollowing(q, store) ==
    IF NeedsSide2(q)
    THEN [q EXCEPT !.doc.followers = EditSide2(q), !.pc = "save2"]
    ELSE IF q.op = "unfollow" /\ ~q.wrote1 THEN Finish(q, 400, store)
    ELSE Finish(q, 200, store)

\* Side 2 of the handler up to its next await: edit and save, or respond 200.
Side2Step(q, store) ==
    IF NeedsSide2(q)
    THEN [q EXCEPT !.doc.followers = EditSide2(q), !.pc = "save2"]
    ELSE Finish(q, 200, store)

\* Mutant of Side1Step: responds 200 at once when side 1 is already in place.
Side1Step_EarlyReturn(q, store) ==
    IF NeedsSide1(q)
    THEN [q EXCEPT !.user.followedUsers = EditSide1(q), !.pc = "save1"]
    ELSE Finish(q, 200, store)

\* Mutant of Side1Step: side 1 is never edited or saved.
Side1Step_NoSave(q, store) == Side2Step(q, store)

\* Side 1 of the handler up to its next await.
Side1Step(q, store) ==
    IF NeedsSide1(q)
    THEN [q EXCEPT !.user.followedUsers = EditSide1(q), !.pc = "save1"]
    ELSE Side2Step(q, store)

\* document.save() after push: an atomic $push of the pushed id onto the stored
\* array, and $inc of the version key.
SavePushed(stored, field, id) ==
    IF field = "followedUsers"
    THEN [stored EXCEPT !.followedUsers = Push(@, id), !.v = @ + 1]
    ELSE [stored EXCEPT !.followers = Push(@, id), !.v = @ + 1]

\* document.save() after the array was assigned: $set of the whole in-memory
\* array and $inc of the version key, where the stored version is still the loaded one.
SaveAssigned(stored, field, list) ==
    IF field = "followedUsers"
    THEN [stored EXCEPT !.followedUsers = list, !.v = @ + 1]
    ELSE [stored EXCEPT !.followers = list, !.v = @ + 1]

\* An array assignment is saved only against the version that was loaded.
VersionMatches(stored, loaded) == stored.v = loaded.v

\* The auth middleware: req.user is the actor's document as stored when the
\* request was authenticated.
Authenticate(op, actor, target) ==
    [IdleReq EXCEPT !.op = op, !.actor = actor, !.target = target,
                    !.user = users[actor],
                    !.alone = \A o \in ReqIds : ~Active(o),
                    !.pre = Lists(users)]

\* Handler entry: the two 400 checks, then the findById is issued.
Validate(q) ==
    IF IsMissing(q.target) \/ IsSelf(q.actor, q.target)
    THEN Finish(q, 400, users)
    ELSE [q EXCEPT !.pc = "find"]

\* A request for one of the handlers in ops arrives, from any registered actor
\* and for any target id.
EnterWith(r, ops) ==
    /\ reqs[r].pc = "idle"
    /\ IF r = 1 THEN TRUE ELSE reqs[r - 1].pc # "idle"
    /\ \E op \in ops, a \in DOMAIN users, t \in UserIds \cup {NoId} :
         reqs' = [o \in ReqIds |->
                    IF o = r THEN Validate(Authenticate(op, a, t))
                    ELSE IF Active(o) THEN [reqs[o] EXCEPT !.alone = FALSE]
                    ELSE reqs[o]]
    /\ UNCHANGED <<users, votes, fetches, bar>>

Enter(r) == EnterWith(r, {"follow", "unfollow"})

\* Only followUser is called.
FollowEnter(r) == EnterWith(r, {"follow"})

\* await User.findById(target), the 404, and side 1 up to its save.
FindTarget(r) ==
    /\ reqs[r].pc = "find"
    /\ LET q == [reqs[r] EXCEPT !.doc = FindById(reqs[r].target)]
       IN reqs' = [reqs EXCEPT ![r] =
                     IF IsNull(q.doc) THEN Finish(q, 404, users)
                     ELSE Side1Step(q, users)]
    /\ UNCHANGED <<users, votes, fetches, bar>>

\* await req.user.save(), then side 2 up to its save.
Save1(r) ==
    /\ reqs[r].pc = "save1"
    /\ LET q == reqs[r]
           a == q.actor
       IN IF q.op = "follow"
          THEN /\ users' = [users EXCEPT ![a] = SavePushed(@, "followedUsers", q.target)]
               /\ reqs' = [reqs EXCEPT ![r] = Side2Step([q EXCEPT !.wrote1 = TRUE], users')]
          ELSE IF VersionMatches(users[a], q.user)
          THEN /\ users' = [users EXCEPT ![a] =
                              SaveAssigned(@, "followedUsers", q.user.followedUsers)]
               /\ reqs' = [reqs EXCEPT ![r] = Side2Step([q EXCEPT !.wrote1 = TRUE], users')]
          ELSE /\ users' = users
               /\ reqs' = [reqs EXCEPT ![r] =
                             Finish([q EXCEPT !.failedAt = "save1"], 500, users)]
    /\ UNCHANGED <<votes, fetches, bar>>

\* Mutant of Save2: the save writes the whole in-memory followers array back,
\* whatever the stored version.
Save2_Overwrite(r) ==
    /\ reqs[r].pc = "save2"
    /\ LET q == reqs[r]
           t == q.target
       IN /\ users' = [users EXCEPT ![t] = SaveAssigned(@, "followers", q.doc.followers)]
          /\ reqs' = [reqs EXCEPT ![r] = Finish([q EXCEPT !.wrote2 = TRUE], 200, users')]
    /\ UNCHANGED <<votes, fetches, bar>>

\* await target.save(), then the 200 response.
Save2(r) ==
    /\ reqs[r].pc = "save2"
    /\ LET q == reqs[r]
           t == q.target
       IN IF q.op = "follow"
          THEN /\ users' = [users EXCEPT ![t] = SavePushed(@, "followers", q.actor)]
               /\ reqs' = [reqs EXCEPT ![r] = Finish([q EXCEPT !.wrote2 = TRUE], 200, users')]
          ELSE IF VersionMatches(users[t], q.doc)
          THEN /\ users' = [users EXCEPT ![t] =
                              SaveAssigned(@, "followers", q.doc.followers)]
               /\ reqs' = [reqs EXCEPT ![r] = Finish([q EXCEPT !.wrote2 = TRUE], 200, users')]
          ELSE /\ users' = users
               /\ reqs' = [reqs EXCEPT ![r] =
                             Finish([q EXCEPT !.failedAt = "save2"], 500, users)]
    /\ UNCHANGED <<votes, fetches, bar>>

\* A store call rejects (the store is unavailable): the catch block answers 500.
StoreError(r) ==
    /\ reqs[r].pc \in {"find", "save1", "save2"}
    /\ reqs' = [reqs EXCEPT ![r] =
                  Finish([reqs[r] EXCEPT !.failedAt = reqs[r].pc], 500, users)]
    /\ UNCHANGED <<users, votes, fetches, bar>>

\* --------------------------------------- bookmark / unbookmark
\* The resource ids a bookmark request may carry (existence is not checked).
BookmarkIds == {1, 2}

\* !user.bookmarkedResources.includes(resourceId) for bookmark, includes for unbookmark.
BookmarkNeeded(q) ==
    IF q.op = "bookmark"
    THEN ~Includes(q.doc.bookmarkedResources, q.target)
    ELSE Includes(q.doc.bookmarkedResources, q.target)

\* The in-memory edit: push for bookmark, filter for unbookmark.
EditBookmarks(q) ==
    IF q.op = "bookmark"
    THEN Push(q.doc.bookmarkedResources, q.target)
    ELSE Filter(q.doc.bookmarkedResources, q.target)

\* Mutant of SaveBookmarkPushed: the id is pushed onto followedUsers.
SaveBookmarkPushed_WrongField(stored, id) ==
    [stored EXCEPT !.followedUsers = Push(@, id), !.v = @ + 1]

\* user.save() after push: an atomic $push onto the stored bookmarkedResources,
\* and $inc of the version key.
SaveBookmarkPushed(stored, id) ==
    [stored EXCEPT !.bookmarkedResources = Push(@, id), !.v = @ + 1]

\* user.save() after the filter was assigned: $set of the whole in-memory array
\* and $inc of the version key, against the version that was loaded.
SaveBookmarkAssigned(stored, list) ==
    [stored EXCEPT !.bookmarkedResources = list, !.v = @ + 1]

\* The request as it reaches the handler; req.user carries the actor's id only.
BookmarkRequest(op, actor, resourceId) ==
    [IdleReq EXCEPT !.op = op, !.actor = actor, !.target = resourceId,
                    !.alone = \A o \in ReqIds : ~Active(o),
                    !.pre = Lists(users)]

\* Handler entry: 400 without a resourceId, else User.findById is issued.
BookmarkEnter(r) ==
    /\ reqs[r].pc = "idle"
    /\ IF r = 1 THEN TRUE ELSE reqs[r - 1].pc # "idle"
    /\ \E op \in {"bookmark", "unbookmark"}, a \in UserIds, res \in BookmarkIds \cup {NoId} :
         LET q == BookmarkRequest(op, a, res)
         IN reqs' = [o \in ReqIds |->
                    IF o = r
                    THEN IF IsMissing(res) THEN Finish(q, 400, users)
                         ELSE [q EXCEPT !.pc = "findUser"]
                    ELSE IF Active(o) THEN [reqs[o] EXCEPT !.alone = FALSE]
                    ELSE reqs[o]]
    /\ UNCHANGED <<users, votes, fetches, bar>>

\* await User.findById(req.user._id): the 404, the includes check, the edit.
BookmarkFind(r) ==
    /\ reqs[r].pc = "findUser"
    /\ LET q == [reqs[r] EXCEPT !.doc = FindById(reqs[r].actor)]
       IN reqs' = [reqs EXCEPT ![r] =
                     IF IsNull(q.doc) THEN Finish(q, 404, users)
                     ELSE IF BookmarkNeeded(q)
                     THEN [q EXCEPT !.doc.bookmarkedResources = EditBookmarks(q),
                                    !.pc = "saveUser"]
                     ELSE Finish(q, 200, users)]
    /\ UNCHANGED <<users, votes, fetches, bar>>

\* await user.save(), then the 200 response.
BookmarkSave(r) ==
    /\ reqs[r].pc = "saveUser"
    /\ LET q == reqs[r]
           a == q.actor
       IN IF q.op = "bookmark"
          THEN /\ users' = [users EXCEPT ![a] = SaveBookmarkPushed(@, q.target)]
               /\ reqs' = [reqs EXCEPT ![r] = Finish([q EXCEPT !.wrote1 = TRUE], 200, users')]
          ELSE IF VersionMatches(users[a], q.doc)
          THEN /\ users' = [users EXCEPT ![a] =
                              SaveBookmarkAssigned(@, q.doc.bookmarkedResources)]
               /\ reqs' = [reqs EXCEPT ![r] = Finish([q EXCEPT !.wrote1 = TRUE], 200, users')]
          ELSE /\ users' = users
               /\ reqs' = [reqs EXCEPT ![r] =
                             Finish([q EXCEPT !.failedAt = "saveUser"], 500, users)]
    /\ UNCHANGED <<votes, fetches, bar>>

\* A store call rejects (the store is unavailable): the catch block answers 500.
BookmarkStoreError(r) ==
    /\ reqs[r].pc \in {"findUser", "saveUser"}
    /\ reqs' = [reqs EXCEPT ![r] =
                  Finish([reqs[r] EXCEPT !.failedAt = reqs[r].pc], 500, users)]
    /\ UNCHANGED <<users, votes, fetches, bar>>

\* ------------------------------------------------------ getTopicBySlug
\* The slugs a request may carry: that of the stored topic, and one of no topic.
Slugs == {"omnipedia", "missing"}

\* Mutant of TopicFound: every slug is taken to name a topic (the 404 is dropped).
TopicFound_Always(slug) == TRUE

\* Topic.findOne({ slug }).populate('resources'): the topic's resources, or null.
TopicFound(slug) == slug = "omnipedia"

NoVote == [resource |-> 0, upvoters |-> <<>>, downvoters |-> <<>>, present |-> FALSE]

\* The document Vote.create({ resource, upvoters: [], downvoters: [] }) inserts.
NewVote(res) == [resource |-> res, upvoters |-> <<>>, downvoters |-> <<>>, present |-> TRUE]

\* Vote.findOne({ resource }): the first stored Vote of the resource, or null.
FindVote(res) ==
    IF \E i \in 1..Len(votes) : votes[i].resource = res
    THEN votes[CHOOSE i \in 1..Len(votes) :
                 /\ votes[i].resource = res
                 /\ \A j \in 1..Len(votes) : votes[j].resource = res => i <= j]
    ELSE NoVote

\* Mutant of VoteMissing: the lazy create is never taken.
VoteMissing_Never(vote) == FALSE

\* if (!vote).
VoteMissing(vote) == ~vote.present

\* Mutant of Tally: the two counts are swapped.
Tally_Swapped(vote) == [upvotes |-> Len(vote.downvoters), downvotes |-> Len(vote.upvoters)]

\* upvotes: vote.upvoters.length, downvotes: vote.downvoters.length.
Tally(vote) == [upvotes |-> Len(vote.upvoters), downvotes |-> Len(vote.downvoters)]

NoTally == [upvotes |-> 0, downvotes |-> 0]

\* The store's uniqueness constraint on Vote.resource: a create for a resource
\* that already has a Vote is rejected.
CreateConflicts(res) == \E i \in 1..Len(votes) : votes[i].resource = res

IdleFetch ==
    [pc |-> "idle", slug |-> "", status |-> 0,
     task |-> [res \in Resources |-> "none"],
     tally |-> [res \in Resources |-> NoTally],
     lacking |-> {}, overlapped |-> FALSE, conflict |-> {}]

\* Every mapped async function has settled (fulfilled or rejected).
Settled(q) == q.pc # "idle" /\ \A res \in Resources : q.task[res] \in {"none", "ok", "rejected"}

InFlight(f) == fetches[f].pc # "idle" /\ ~Settled(fetches[f])

\* Promise.all and the response: 200 once every mapped function has fulfilled,
\* 500 from the catch block on the first rejection; one response per request.
Respond(q) ==
    IF q.status # 0 THEN q
    ELSE IF \E res \in Resources : q.task[res] = "rejected" THEN [q EXCEPT !.status = 500]
    ELSE IF \A res \in Resources : q.task[res] = "ok" THEN [q EXCEPT !.status = 200]
    ELSE q

\* await Topic.findOne: the 404, or every mapped function runs to its Vote.findOne.
FetchTopic(f) ==
    /\ fetches[f].pc = "idle"
    /\ IF f = 1 THEN TRUE ELSE fetches[f - 1].pc # "idle"
    /\ \E slug \in Slugs :
         LET over == \E o \in FetchIds : InFlight(o)
             q == [IdleFetch EXCEPT !.pc = "started", !.slug = slug]
         IN fetches' = [o \in FetchIds |->
                IF o = f
                THEN IF ~TopicFound(slug) THEN [q EXCEPT !.status = 404]
                     ELSE [q EXCEPT !.task = [res \in Resources |-> "find"],
                                    !.lacking = {res \in Resources : ~FindVote(res).present},
                                    !.overlapped = over]
                ELSE IF InFlight(o) /\ TopicFound(slug)
                THEN [fetches[o] EXCEPT !.overlapped = TRUE]
                ELSE fetches[o]]
    /\ UNCHANGED <<users, reqs, votes, bar>>

\* await Vote.findOne({ resource }): the tally of the Vote found, or Vote.create is issued.
FindVoteStep(f, res) ==
    /\ fetches[f].task[res] = "find"
    /\ LET vote == FindVote(res)
           q == fetches[f]
       IN fetches' = [fetches EXCEPT ![f] =
              IF VoteMissing(vote) THEN [q EXCEPT !.task[res] = "create"]
              ELSE Respond([q EXCEPT !.task[res] = "ok", !.tally[res] = Tally(vote)])]
    /\ UNCHANGED <<users, reqs, votes, bar>>

\* await Vote.create(...): the Vote is inserted and tallied, or the create is
\* rejected and the rejection reaches the catch block.
CreateVoteStep(f, res) ==
    /\ fetches[f].task[res] = "create"
    /\ LET q == fetches[f]
       IN IF CreateConflicts(res)
          THEN /\ votes' = votes
               /\ fetches' = [fetches EXCEPT ![f] =
                     Respond([q EXCEPT !.task[res] = "rejected",
                                       !.conflict = @ \cup {res}])]
          ELSE /\ votes' = Append(votes, NewVote(res))
               /\ fetches' = [fetches EXCEPT ![f] =
                     Respond([q EXCEPT !.task[res] = "ok",
                                       !.tally[res] = Tally(NewVote(res))])]
    /\ UNCHANGED <<users, reqs, bar>>

\* The Votes stored before any fetch: per resource none, an empty one, or a voted one.
VoteMenu(res) ==
    { <<>>,
      <<NewVote(res)>>,
      <<[NewVote(res) EXCEPT !.upvoters = <<1, 2>>, !.downvoters = <<3>>]>> }

RECURSIVE VoteStores(_)
VoteStores(n) ==
    IF n = 0 THEN {<<>>}
    ELSE {s \o v : s \in VoteStores(n - 1), v \in VoteMenu(n)}

\* ------------------------------------------------------------ SearchBar
\* The most times the search term is set in one behaviour.
MaxChanges == 3

\* The values the input may take, as sequences of characters.
Terms == {<<>>, <<"o", "m">>, <<"o", "m", "n">>, <<"o", "m", "n", "i">>}

\* The topics arrays a suggestion response may carry, each topic given by its name.
TopicLists == {<<>>, <<<<"o", "m", "n", "i">>>>}

NoError == "null"

\* The component when its first effect has run: the useState defaults, and the
\* debounce timer set for the empty term.  shownFor names the term whose handler
\* last set suggestions, error and noResults; hadSuggestions records that
\* suggestions were shown at some time.
MountedBar ==
    [searchTerm |-> <<>>, suggestions |-> <<>>, error |-> NoError, noResults |-> FALSE,
     timer |-> [armed |-> TRUE, term |-> <<>>], inflight |-> {},
     changes |-> 0, shownFor |-> <<>>, hadSuggestions |-> FALSE]

\* response.data.topics is present.
OnTopics(b, topics) ==
    [b EXCEPT !.suggestions = topics, !.noResults = (Len(topics) = 0), !.error = NoError,
              !.hadSuggestions = @ \/ Len(topics) > 0]

\* response.data.topics is absent.
OnMalformed(b) ==
    [b EXCEPT !.error = "Unexpected server response.", !.suggestions = <<>>,
              !.noResults = FALSE]

\* Mutant of OnFailure: the catch block sets the error only.
OnFailure_ErrorOnly(b) ==
    [b EXCEPT !.error = "Unable to retrieve suggestions. Please try again later."]

\* The request failed: the catch block.
OnFailure(b) ==
    [b EXCEPT !.error = "Unable to retrieve suggestions. Please try again later.",
              !.suggestions = <<>>, !.noResults = FALSE]

\* searchTerm.length <= 2.
OnShortTerm(b) ==
    [b EXCEPT !.suggestions = <<>>, !.error = NoError, !.noResults = FALSE]

\* setSearchTerm(t) with a new value: the effect's cleanup clears the pending
\* timer and the effect sets one for the new term.
SetSearchTerm(b, t) ==
    [b EXCEPT !.searchTerm = t, !.timer = [armed |-> TRUE, term |-> t],
              !.changes = @ + 1]

\* onChange of the input.
TypeTerm ==
    /\ bar.changes < MaxChanges
    /\ \E t \in Terms : t # bar.searchTerm /\ bar' = SetSearchTerm(bar, t)
    /\ UNCHANGED <<users, reqs, votes, fetches>>

\* onMouseDown on a listed suggestion.
PickSuggestion ==
    /\ bar.changes < MaxChanges
    /\ ~bar.noResults
    /\ \E i \in 1..Len(bar.suggestions) :
         /\ bar.suggestions[i] # bar.searchTerm
         /\ bar' = SetSearchTerm(bar, bar.suggestions[i])
    /\ UNCHANGED <<users, reqs, votes, fetches>>

\* The debounce timer fires and fetchSuggestions runs up to its await.
DebounceFires ==
    /\ bar.timer.armed
    /\ LET t == bar.timer.term
           b == [bar EXCEPT !.timer.armed = FALSE]
       IN bar' = IF Len(t) > 2
                 THEN [b EXCEPT !.inflight = @ \cup {[n |-> bar.changes, term |-> t]}]
                 ELSE [OnShortTerm(b) EXCEPT !.shownFor = t]
    /\ UNCHANGED <<users, reqs, votes, fetches>>

\* A request in flight is answered with a topics array.
ResponseTopics ==
    /\ \E q \in bar.inflight, topics \in TopicLists :
         bar' = [OnTopics(bar, topics) EXCEPT !.inflight = @ \ {q}, !.shownFor = q.term]
    /\ UNCHANGED <<users, reqs, votes, fetches>>

\* A request in flight is answered without a topics field.
ResponseMalformed ==
    /\ \E q \in bar.inflight :
         bar' = [OnMalformed(bar) EXCEPT !.inflight = @ \ {q}, !.shownFor = q.term]
    /\ UNCHANGED <<users, reqs, votes, fetches>>

\* A request in flight fails.
ResponseFailed ==
    /\ \E q \in bar.inflight :
         bar' = [OnFailure(bar) EXCEPT !.inflight = @ \ {q}, !.shownFor = q.term]
    /\ UNCHANGED <<users, reqs, votes, fetches>>

\* ------------------------------------------------------- initial states
\* A follow relation among the registered users U, stored on both sides in id order.
RECURSIVE EdgeList(_)
EdgeList(S) ==
    IF S = {} THEN <<>>
    ELSE LET m == CHOOSE x \in S : \A y \in S : x <= y
         IN <<m>> \o EdgeList(S \ {m})

Edges(U) == {e \in U \X U : e[1] # e[2]}

GraphStore(U, G) ==
    [u \in U |->
        [NewUser EXCEPT !.followedUsers = EdgeList({b \in U : <<u, b>> \in G}),
                        !.followers = EdgeList({a \in U : <<a, u>> \in G})]]

\* Users 1 and 2 are registered; id 3 resolves to no user.
InitUsers == \E G \in SUBSET Edges({1, 2}) : users = GraphStore({1, 2}, G)

Init ==
    /\ InitUsers
    /\ reqs = [r \in ReqIds |-> IdleReq]
    /\ votes = <<>>
    /\ fetches = [f \in FetchIds |-> IdleFetch]
    /\ bar = MountedBar

Next ==
    \E r \in ReqIds :
        \/ Enter(r)
        \/ FindTarget(r)
        \/ Save1(r)
        \/ Save2(r)
        \/ StoreError(r)

Spec == Init /\ [][Next]_vars

InitTopic ==
    /\ users = GraphStore({1, 2}, {})
    /\ reqs = [r \in ReqIds |-> IdleReq]
    /\ votes \in VoteStores(NResources)
    /\ fetches = [f \in FetchIds |-> IdleFetch]
    /\ bar = MountedBar

NextTopic ==
    \E f \in FetchIds :
        \/ FetchTopic(f)
        \/ \E res \in Resources : FindVoteStep(f, res)
        \/ \E res \in Resources : CreateVoteStep(f, res)

SpecTopic == InitTopic /\ [][NextTopic]_vars

\* The bookmarks stored before the requests: none, one, or two distinct resources.
\* followUser only, among three registered users.
FollowStart == {{}, {<<1, 3>>}, {<<1, 3>>, <<2, 1>>}}

InitFollow ==
    /\ \E G \in FollowStart : users = GraphStore({1, 2, 3}, G)
    /\ reqs = [r \in ReqIds |-> IdleReq]
    /\ votes = <<>>
    /\ fetches = [f \in FetchIds |-> IdleFetch]
    /\ bar = MountedBar

NextFollow ==
    \E r \in ReqIds :
        \/ FollowEnter(r)
        \/ FindTarget(r)
        \/ Save1(r)
        \/ Save2(r)
        \/ StoreError(r)

SpecFollow == InitFollow /\ [][NextFollow]_vars

InitSearch ==
    /\ users = GraphStore({1, 2}, {})
    /\ reqs = [r \in ReqIds |-> IdleReq]
    /\ votes = <<>>
    /\ fetches = [f \in FetchIds |-> IdleFetch]
    /\ bar = MountedBar

NextSearch ==
    \/ TypeTerm
    \/ PickSuggestion
    \/ DebounceFires
    \/ ResponseTopics
    \/ ResponseMalformed
    \/ ResponseFailed

SpecSearch == InitSearch /\ [][NextSearch]_vars

BookmarkMenu == {<<>>, <<1>>, <<2, 1>>}

InitBookmark ==
    /\ \E G \in {{}, {<<1, 2>>}}, b \in BookmarkMenu :
          users = [GraphStore({1, 2}, G) EXCEPT ![1].bookmarkedResources = b]
    /\ reqs = [r \in ReqIds |-> IdleReq]
    /\ votes = <<>>
    /\ fetches = [f \in FetchIds |-> IdleFetch]
    /\ bar = MountedBar

NextBookmark ==
    \E r \in ReqIds :
        \/ BookmarkEnter(r)
        \/ BookmarkFind(r)
        \/ BookmarkSave(r)
        \/ BookmarkStoreError(r)

SpecBookmark == InitBookmark /\ [][NextBookmark]_vars

\* ---------------------------------------------------------------- claims
Started(r) == reqs[r].pc # "idle"
Done(r) == reqs[r].pc = "done"
Ok(r) == Done(r) /\ reqs[r].status = 200
Quiescent == \A r \in ReqIds : ~Active(r)

\* A is stored as a follower of B exactly when B is stored as followed by A.
Mirrored(store) ==
    \A a \in DOMAIN store, b \in DOMAIN store :
        Includes(store[b].followers, a) <=> Includes(store[a].followedUsers, b)

\* C1: whenever no request is in progress and every started follow / unfollow
\* request has returned success, A is in followers(B) iff B is in followedUsers(A).
C1_MirroredWhenAllSucceeded ==
    (Quiescent /\ \A r \in ReqIds : Started(r) => Ok(r)) => Mirrored(users)

\* Request r is the call op(a, b) between two distinct registered users.
Call(r, op, a, b) ==
    /\ reqs[r].op = op /\ reqs[r].actor = a /\ reqs[r].target = b
    /\ a # b /\ a \in DOMAIN users /\ b \in DOMAIN users

\* Request r is over and no other request was in progress while it ran.
RanAlone(r) == Done(r) /\ reqs[r].alone

\* Request r2 ran right after r1: it started in the state r1 left.
Then(r1, r2) == r1 # r2 /\ RanAlone(r1) /\ RanAlone(r2) /\ reqs[r2].pre = reqs[r1].post

Pairs == {p \in UserIds \X UserIds : p[1] # p[2]}

\* C3: after a followUser(A,B) that ran alone and returned 200, B is in
\* followedUsers(A) and A is in followers(B), whatever the state it started in.
C3_FollowUpdatesBothSides ==
    \A r \in ReqIds, p \in Pairs :
        (RanAlone(r) /\ Call(r, "follow", p[1], p[2]) /\ reqs[r].status = 200)
        => /\ Includes(reqs[r].post[p[1]].followedUsers, p[2])
           /\ Includes(reqs[r].post[p[2]].followers, p[1])

\* alice (1) follows bob (2) from the empty relation: followedUsers(1) = [2], followers(2) = [1].
C3_Witness ==
    \E r \in ReqIds :
        /\ RanAlone(r) /\ Call(r, "follow", 1, 2) /\ reqs[r].status = 200
        /\ reqs[r].pre[1].followedUsers = <<>> /\ reqs[r].pre[2].followers = <<>>
        /\ reqs[r].post[1].followedUsers = <<2>> /\ reqs[r].post[2].followers = <<1>>

\* Number of occurrences of id in list.
Count(list, id) == Cardinality({i \in 1..Len(list) : list[i] = id})

\* The state in which op(A,B) has applied side 1 and not side 2.
Partial(s, op, a, b) ==
    IF op = "follow"
    THEN Count(s[a].followedUsers, b) = 1 /\ ~Includes(s[b].followers, a)
    ELSE ~Includes(s[a].followedUsers, b) /\ Includes(s[b].followers, a)

\* The state op(A,B) is meant to end in.
Converged(s, op, a, b) ==
    IF op = "follow"
    THEN Count(s[a].followedUsers, b) = 1 /\ Count(s[b].followers, a) = 1
    ELSE ~Includes(s[a].followedUsers, b) /\ ~Includes(s[b].followers, a)

\* C4: a follow / unfollow that saved side 1 and failed on side 2 answers 500 and
\* leaves side 1 applied once; re-invoking the same call from such a state either
\* fails again leaving that state, or returns 200 with both sides applied exactly once
\* (both removed, for unfollow).
C4_RetryConverges ==
    \A r \in ReqIds, p \in Pairs, op \in {"follow", "unfollow"} :
        (RanAlone(r) /\ Call(r, op, p[1], p[2])) =>
            /\ (reqs[r].wrote1 /\ reqs[r].failedAt = "save2")
                 => reqs[r].status = 500 /\ Partial(reqs[r].post, op, p[1], p[2])
            /\ Partial(reqs[r].pre, op, p[1], p[2])
                 => /\ reqs[r].status \in {200, 500}
                    /\ reqs[r].status = 200 => Converged(reqs[r].post, op, p[1], p[2])
                    /\ reqs[r].status = 500 => Partial(reqs[r].post, op, p[1], p[2])

\* A follow saved side 1, failed on side 2, and its retry returned 200.
C4_Witness ==
    \E r1 \in ReqIds, r2 \in ReqIds :
        /\ Then(r1, r2)
        /\ Call(r1, "follow", 1, 2) /\ Call(r2, "follow", 1, 2)
        /\ reqs[r1].wrote1 /\ reqs[r1].failedAt = "save2" /\ reqs[r1].status = 500
        /\ reqs[r2].status = 200 /\ reqs[r2].wrote2 /\ ~reqs[r2].wrote1

\* The same for unfollow (the removal case of C4).
C4_WitnessUnfollow ==
    \E r1 \in ReqIds, r2 \in ReqIds :
        /\ Then(r1, r2)
        /\ Call(r1, "unfollow", 1, 2) /\ Call(r2, "unfollow", 1, 2)
        /\ reqs[r1].wrote1 /\ reqs[r1].failedAt = "save2" /\ reqs[r1].status = 500
        /\ reqs[r2].status = 200 /\ reqs[r2].wrote2 /\ ~reqs[r2].wrote1

\* C5: when two or more identical followUser(A,B) requests overlapped and all
\* returned 200, B is in followedUsers(A) exactly once and A in followers(B)
\* exactly once (both absent, for identical unfollowUser requests).
C5_IdenticalConcurrentConverge ==
    \A p \in Pairs, op \in {"follow", "unfollow"} :
        ( /\ Quiescent
          /\ Cardinality({r \in ReqIds : Started(r)}) >= 2
          /\ \A r \in ReqIds :
                Started(r) => Call(r, op, p[1], p[2]) /\ Ok(r) /\ ~reqs[r].alone )
        => Converged(users, op, p[1], p[2])

\* C6: a second followUser(A,B) right after a successful first one saves nothing,
\* leaves every stored list as the first call left it, and returns 200 (500 only
\* when the store rejected its findById).
C6_FollowTwiceIsOnce ==
    \A r1 \in ReqIds, r2 \in ReqIds, p \in Pairs :
        ( /\ Then(r1, r2)
          /\ Call(r1, "follow", p[1], p[2]) /\ Call(r2, "follow", p[1], p[2])
          /\ reqs[r1].status = 200 )
        => /\ reqs[r2].status = 200 \/ (reqs[r2].status = 500 /\ reqs[r2].failedAt = "find")
           /\ reqs[r2].post = reqs[r1].post
           /\ ~reqs[r2].wrote1 /\ ~reqs[r2].wrote2

\* The first call added both sides, the second call has returned.
C6_Witness ==
    \E r1 \in ReqIds, r2 \in ReqIds :
        /\ Then(r1, r2)
        /\ Call(r1, "follow", 1, 2) /\ Call(r2, "follow", 1, 2)
        /\ reqs[r1].status = 200 /\ reqs[r1].wrote1 /\ reqs[r1].wrote2
        /\ reqs[r2].status = 200
        /\ reqs[r2].post[1].followedUsers = <<2>> /\ reqs[r2].post[2].followers = <<1>>

\* A successful followUser(A,B) followed by a successful unfollowUser(A,B).
RoundTrip(r1, r2, a, b) ==
    /\ Then(r1, r2)
    /\ Call(r1, "follow", a, b) /\ Call(r2, "unfollow", a, b)
    /\ reqs[r1].status = 200 /\ reqs[r2].status = 200

C8_SelfRejected ==
    [][\A r \in ReqIds :
          ( /\ reqs'[r].op \in {"follow", "unfollow"}
            /\ reqs'[r].target = reqs'[r].actor
            /\ reqs'[r].pc # reqs[r].pc )
          => /\ users' = users
             /\ reqs'[r].pc = "done" /\ reqs'[r].status = 400
             /\ reqs'[r].post = reqs'[r].pre]_vars

\* A self-follow and a self-unfollow have both been answered 400.
C8_Witness ==
    \E r1 \in ReqIds, r2 \in ReqIds :
        /\ reqs[r1].op = "follow" /\ reqs[r1].target = reqs[r1].actor
        /\ reqs[r2].op = "unfollow" /\ reqs[r2].target = reqs[r2].actor
        /\ reqs[r1].status = 400 /\ reqs[r2].status = 400
        /\ \E u \in DOMAIN users : users[u].followedUsers # <<>>

\* Request r names a well-formed target id that resolves to no user.
UnknownTarget(q) ==
    q.op \in {"follow", "unfollow"} /\ q.target \in UserIds \ DOMAIN users

\* C9: no step of a follow / unfollow request whose target resolves to no user
\* changes a stored user document, and the request is answered 404 once its
\* findById has resolved.
C9_UnknownTargetNotFound ==
    [][\A r \in ReqIds :
          (UnknownTarget(reqs'[r]) /\ reqs'[r].pc # reqs[r].pc)
          => /\ users' = users
             /\ reqs'[r].pc \in {"find", "done"}
             /\ (reqs'[r].pc = "done" /\ reqs'[r].failedAt = "none")
                  => reqs'[r].status = 404]_vars

\* followUser(1,3) and unfollowUser(1,3), user 3 not existing, were answered 404.
C9_Witness ==
    \E r1 \in ReqIds, r2 \in ReqIds :
        /\ reqs[r1].op = "follow" /\ reqs[r2].op = "unfollow"
        /\ UnknownTarget(reqs[r1]) /\ UnknownTarget(reqs[r2])
        /\ reqs[r1].status = 404 /\ reqs[r2].status = 404
        /\ reqs[r1].post = reqs[r1].pre

\* ------------------------------------------------- claims: topic fetch
VoteCount(res) == Cardinality({i \in 1..Len(votes) : votes[i].resource = res})

AllSettled == \A f \in FetchIds : ~InFlight(f)

\* The fetches that overlapped another fetch and started while res had no Vote.
Racers(res) ==
    {f \in FetchIds : fetches[f].overlapped /\ res \in fetches[f].lacking}

C10_ConflictFallsBack ==
    \A f \in FetchIds, res \in Resources :
        (Settled(fetches[f]) /\ res \in fetches[f].conflict)
        => /\ fetches[f].status = 200
           /\ fetches[f].tally[res] = Tally(FindVote(res))

\* ---------------------------------------------------- claims: bookmarks
\* C11: in every state reached by bookmarkResource / unbookmarkResource requests,
\* overlapping identical ones included, no resource occurs twice in a user's
\* bookmarkedResources.
C11_BookmarkedAtMostOnce ==
    \A u \in DOMAIN users, res \in BookmarkIds :
        Count(users[u].bookmarkedResources, res) <= 1

\* ------------------------------------------- claims: topic fetch, tally
\* Fetch f found the topic.
Fetched(f) == fetches[f].pc # "idle" /\ TopicFound(fetches[f].slug)

\* C12: once a fetch of the topic has finished, a resource that had no Vote when
\* the fetch started has a stored Vote with empty upvoters and downvoters and,
\* in a 200 response, the tally {upvotes: 0, downvotes: 0}; a resource that had a
\* Vote is returned with the sizes of that Vote's upvoters and downvoters.
C12_TallyAndLazyCreate ==
    \A f \in FetchIds, res \in Resources :
        (Fetched(f) /\ Settled(fetches[f])) =>
            IF res \in fetches[f].lacking
            THEN /\ FindVote(res) = NewVote(res)
                 /\ fetches[f].status = 200 => fetches[f].tally[res] = NoTally
            ELSE fetches[f].status = 200 =>
                    /\ fetches[f].tally[res].upvotes = Len(FindVote(res).upvoters)
                    /\ fetches[f].tally[res].downvotes = Len(FindVote(res).downvoters)

\* A lone fetch answered 200: resource 1 had no Vote and now has an empty one,
\* resource 2 had two upvoters and one downvoter and is returned as 2 / 1.
C12_Witness ==
    \E f \in FetchIds :
        /\ Settled(fetches[f]) /\ fetches[f].status = 200 /\ ~fetches[f].overlapped
        /\ fetches[f].lacking = {1}
        /\ fetches[f].tally[1] = NoTally /\ FindVote(1) = NewVote(1)
        /\ fetches[f].tally[2] = [upvotes |-> 2, downvotes |-> 1]

\* ------------------------------------------- claims: follow, continued
\* C13: an unfollowUser(A,B) between distinct existing users, run alone from a
\* state where B is not in followedUsers(A) and A is not in followers(B), saves
\* nothing, leaves every stored list unchanged and returns 200 (500 only when the
\* store rejected its findById).
C13_UnfollowAbsentIsNoOp ==
    \A r \in ReqIds, p \in Pairs :
        ( /\ RanAlone(r) /\ Call(r, "unfollow", p[1], p[2])
          /\ ~Includes(reqs[r].pre[p[1]].followedUsers, p[2])
          /\ ~Includes(reqs[r].pre[p[2]].followers, p[1]) )
        => /\ reqs[r].status = 200 \/ (reqs[r].status = 500 /\ reqs[r].failedAt = "find")
           /\ reqs[r].post = reqs[r].pre
           /\ ~reqs[r].wrote1 /\ ~reqs[r].wrote2

\* unfollowUser(1,2) returned 200 while user 2 follows user 1 and user 1 follows nobody.
C13_Witness ==
    \E r \in ReqIds :
        /\ RanAlone(r) /\ Call(r, "unfollow", 1, 2) /\ reqs[r].status = 200
        /\ reqs[r].pre[1].followedUsers = <<>> /\ reqs[r].pre[2].followers = <<>>
        /\ reqs[r].pre[2].followedUsers = <<1>>
        /\ reqs[r].post = reqs[r].pre

\* C13 as stated, reading "A does not follow B" off the actor's own list only:
\* an unfollowUser(A,B) run alone from a state where B is not in
\* followedUsers(A) returns 200 and leaves every stored list unchanged.
C13_UnfollowNotInOwnList ==
    \A r \in ReqIds, p \in Pairs :
        ( /\ RanAlone(r) /\ Call(r, "unfollow", p[1], p[2])
          /\ ~Includes(reqs[r].pre[p[1]].followedUsers, p[2]) )
        => /\ reqs[r].status = 200 \/ (reqs[r].status = 500 /\ reqs[r].failedAt = "find")
           /\ reqs[r].post = reqs[r].pre

\* C14: in every state reached by followUser requests only, whatever their
\* interleaving and wherever they fail, A in followers(B) implies B in
\* followedUsers(A).
C14_FollowersImplyFollowed ==
    \A a \in DOMAIN users, b \in DOMAIN users :
        Includes(users[b].followers, a) => Includes(users[a].followedUsers, b)

\* A followUser failed between its two saves and left only the actor's side,
\* while another followUser wrote both sides.
C14_Witness ==
    \E r1 \in ReqIds, r2 \in ReqIds :
        /\ reqs[r1].op = "follow" /\ Done(r1) /\ reqs[r1].status = 500
        /\ reqs[r1].failedAt = "save2" /\ reqs[r1].wrote1
        /\ ~Includes(users[reqs[r1].target].followers, reqs[r1].actor)
        /\ reqs[r2].op = "follow" /\ Ok(r2) /\ reqs[r2].wrote1 /\ reqs[r2].wrote2
        /\ Includes(users[reqs[r2].target].followers, reqs[r2].actor)

\* C17: when two followUser requests of distinct actors for the same target
\* have both returned 200, whatever their interleaving, the target's followers
\* hold both actors; when two followUser requests of one actor for distinct
\* targets have both returned 200, the actor's followedUsers hold both targets.
C17_NoFollowUpdateLost ==
    \A r1 \in ReqIds, r2 \in ReqIds :
        ( /\ r1 # r2 /\ Ok(r1) /\ Ok(r2)
          /\ reqs[r1].op = "follow" /\ reqs[r2].op = "follow" )
        => /\ ( reqs[r1].target = reqs[r2].target /\ reqs[r1].actor # reqs[r2].actor )
              => /\ Includes(users[reqs[r1].target].followers, reqs[r1].actor)
                 /\ Includes(users[reqs[r1].target].followers, reqs[r2].actor)
           /\ ( reqs[r1].actor = reqs[r2].actor /\ reqs[r1].target # reqs[r2].target )
              => /\ Includes(users[reqs[r1].actor].followedUsers, reqs[r1].target)
                 /\ Includes(users[reqs[r1].actor].followedUsers, reqs[r2].target)

\* followUser(1,2) and followUser(3,2) each loaded user 2 before the other saved
\* it, and both returned 200 after saving.
C17_Witness ==
    \E r1 \in ReqIds, r2 \in ReqIds :
        /\ Call(r1, "follow", 1, 2) /\ Call(r2, "follow", 3, 2)
        /\ Ok(r1) /\ Ok(r2) /\ reqs[r1].wrote2 /\ reqs[r2].wrote2
        /\ ~Includes(reqs[r1].doc.followers, 3)
        /\ ~Includes(reqs[r2].doc.followers, 1)
        /\ Includes(users[2].followers, 1) /\ Includes(users[2].followers, 3)

\* followUser(1,2) and followUser(1,3) were both authenticated before either
\* saved user 1, and both returned 200 after saving.
C17_WitnessSameActor ==
    \E r1 \in ReqIds, r2 \in ReqIds :
        /\ Call(r1, "follow", 1, 2) /\ Call(r2, "follow", 1, 3)
        /\ Ok(r1) /\ Ok(r2) /\ reqs[r1].wrote1 /\ reqs[r2].wrote1
        /\ ~Includes(reqs[r1].user.followedUsers, 3)
        /\ ~Includes(reqs[r2].user.followedUsers, 2)
        /\ Includes(users[1].followedUsers, 2) /\ Includes(users[1].followedUsers, 3)

\* ------------------------------------------- claims: topic fetch, continued
\* C15: every step of a topic fetch leaves the stored users and every stored
\* Vote as they were; the only change to the Vote store is the append of an
\* empty Vote for a resource that had none, by a fetch of the topic that was
\* creating it; a fetch for a slug without a topic is answered 404, runs no
\* per-resource function and creates no Vote.
C15_FetchOnlyLazyCreates ==
    [][ /\ users' = users
        /\ \/ votes' = votes
           \/ \E res \in Resources, f \in FetchIds :
                /\ ~\E i \in 1..Len(votes) : votes[i].resource = res
                /\ fetches[f].slug = "omnipedia" /\ fetches[f].task[res] = "create"
                /\ votes' = Append(votes, NewVote(res))
        /\ \A f \in FetchIds :
             (fetches'[f].pc # "idle" /\ fetches'[f].slug = "missing")
             => /\ fetches'[f].status = 404
                /\ \A res \in Resources : fetches'[f].task[res] = "none"
                /\ fetches[f].pc = "idle" => votes' = votes
      ]_vars

\* One fetch asked for a missing slug and got 404; another fetched the topic,
\* created the Vote its second resource lacked and left the voted one as stored.
C15_Witness ==
    \E f1 \in FetchIds, f2 \in FetchIds :
        /\ fetches[f1].slug = "missing" /\ fetches[f1].status = 404
        /\ fetches[f2].slug = "omnipedia" /\ fetches[f2].status = 200
        /\ fetches[f2].lacking = {2}
        /\ votes = <<[NewVote(1) EXCEPT !.upvoters = <<1, 2>>, !.downvoters = <<3>>], NewVote(2)>>

\* ------------------------------------------- claims: bookmarks, continued
\* C16: every step of bookmarkResource and unbookmarkResource leaves every
\* user's followedUsers and followers unchanged and changes at most the acting
\* user's bookmarkedResources; a request that carries a resourceId and whose
\* acting user does not exist saves nothing and is answered 404 (500 only when
\* the store rejected its findById).
C16_BookmarkTouchesOwnListOnly ==
    [][ /\ \A u \in DOMAIN users :
             /\ users'[u].followedUsers = users[u].followedUsers
             /\ users'[u].followers = users[u].followers
             /\ users'[u].bookmarkedResources # users[u].bookmarkedResources
                => \E r \in ReqIds :
                     /\ reqs[r].pc = "saveUser" /\ reqs'[r].pc = "done"
                     /\ reqs[r].actor = u
        /\ \A r \in ReqIds :
             ( /\ reqs'[r].pc # reqs[r].pc
               /\ reqs'[r].actor \notin DOMAIN users
               /\ ~IsMissing(reqs'[r].target) )
             => /\ users' = users
                /\ reqs'[r].pc \in {"findUser", "done"}
                /\ reqs'[r].pc = "done"
                   => \/ reqs'[r].status = 404
                      \/ reqs'[r].status = 500 /\ reqs'[r].failedAt = "findUser"
      ]_vars

\* User 1, who follows user 2, bookmarked resource 2 with a save, and a bookmark
\* request of the unregistered id 3 was answered 404.
C16_Witness ==
    \E r1 \in ReqIds, r2 \in ReqIds :
        /\ reqs[r1].op = "bookmark" /\ reqs[r1].actor = 1 /\ reqs[r1].target = 2
        /\ Ok(r1) /\ reqs[r1].wrote1
        /\ users[1].followedUsers = <<2>> /\ users[2].followers = <<1>>
        /\ Includes(users[1].bookmarkedResources, 2)
        /\ reqs[r2].op = "bookmark" /\ reqs[r2].actor = 3 /\ reqs[r2].target = 1
        /\ Done(r2) /\ reqs[r2].status = 404

\* ------------------------------------------------------ claims: SearchBar
\* No debounce timer is pending and no suggestion request is in flight.
BarSettled == ~bar.timer.armed /\ bar.inflight = {}

\* C18: once the debounce timer and every suggestion request in flight have
\* settled, the stored suggestions are those set for the current searchTerm,
\* and are empty when the current searchTerm has length 2 or less.
C18_SuggestionsBelongToCurrentTerm ==
    BarSettled
    => /\ bar.shownFor = bar.searchTerm
       /\ Len(bar.searchTerm) <= 2 => bar.suggestions = <<>>

\* C19: in every state of the component, a non-null error comes with empty
\* suggestions and noResults false, and noResults true comes with empty
\* suggestions and a null error.
C19_ErrorAndNoResultsExclusive ==
    /\ bar.error # NoError => bar.suggestions = <<>> /\ ~bar.noResults
    /\ bar.noResults => bar.suggestions = <<>> /\ bar.error = NoError

\* Suggestions were shown, and a later request failed: the error is set and the
\* suggestions are gone.
C19_Witness ==
    /\ bar.hadSuggestions
    /\ bar.error = "Unable to retrieve suggestions. Please try again later."
    /\ bar.suggestions = <<>>

\* An empty topics array was answered: noResults is set.
C19_WitnessNoResults ==
    bar.noResults /\ bar.hadSuggestions /\ bar.suggestions = <<>> /\ bar.error = NoError

====
